---- MODULE Spec2Model ----
(***************************************************************************)
(* Attendance-AI: the classroom workflow (create, upload-group-photo,      *)
(* assign-students, train-model, take attendance, soft delete) of          *)
(* server/routes/classrooms.js and server/routes/attendance.js over the    *)
(* Classroom collection of server/models/Classroom.js.                     *)
(*                                                                         *)
(* The state is the Classroom collection (db), the User collection (users),*)
(* the record of the last request answered (last): who asked what, what    *)
(* the recognition service answered, whether the store took the write, and *)
(* the HTTP response; and the requests that have loaded their document and *)
(* await a call or a save (inflight).                                      *)
(*                                                                         *)
(* Spec        every handler runs from its first line to its response in   *)
(*             one step (requests one after another), on payloads from     *)
(*             the Workflow... sets.                                       *)
(* SpecRecord  POST /:classroomId/take alone, on a trained classroom with  *)
(*             any roster of at most MaxAssign students and any list of    *)
(*             at most MaxRecognized recognized faces.                     *)
(***************************************************************************)
EXTENDS Naturals, Sequences, FiniteSets, TLC

VARIABLES db, users, last, inflight

vars == <<db, users, last, inflight>>

(* ------------------------------ bounds -------------------------------- *)

\* sessions recorded per classroom under Spec
MaxSessions == 2
\* sessions recorded per classroom under SpecRecord
MaxRecorded == 1
\* longest roster under SpecRecord
MaxAssign == 2
\* longest list of recognized faces under SpecRecord
MaxRecognized == 3
\* sessions recorded per classroom under SpecOwners
MaxOwnerSessions == 1
\* under SpecHistory: sessions in the ledger, distinct createdAt instants,
\* the largest page and the largest limit asked for
MaxHistory == 4
MaxStamp == 3
MaxPage == 3
MaxLimit == 3
\* under SpecAnalytics: sessions in the ledger, faces recognized per session
MaxAnalysed == 2
MaxSeen == 2

(* ------------------------------ values -------------------------------- *)

\* process.env.PYTHON_API_URL
FLASK_API_URL == "http://flask"

\* Clerk subject ids of callers; under Spec only u1 has a User document
Callers == {"u1", "u2"}

\* values of uuidv4().substring(0, 8) for classrooms
ClassroomIds == {"c1"}

\* who asks for which classroom: any caller for an id in use, and the
\* registered caller for an id no classroom has
Requests == (Callers \X ClassroomIds) \cup {<<"u1", "zz">>}

\* roll numbers; "" stands for a missing (falsy) roll number
Rolls == {"A", "C"}
NoRoll == ""
Unknown == "Unknown"

\* all sequences over S of length at most n
RECURSIVE SeqsUpTo(_, _)
SeqsUpTo(S, n) ==
    IF n = 0 THEN {<<>>}
    ELSE LET shorter == SeqsUpTo(S, n - 1)
         IN  shorter \cup {Append(s, x) : s \in {t \in shorter : Len(t) = n - 1}, x \in S}

\* a face as the detector reports it (flaskResponse.data.faces[i])
DetectedFace(f) == [face_id |-> f, face_image_url |-> "/faces/" \o f]

\* flaskResponse.data of detect_faces under Spec: the faces key absent, no
\* face, one face, two faces
WorkflowDetections ==
    { [present |-> FALSE, faces |-> <<>>],
      [present |-> TRUE, faces |-> <<>>],
      [present |-> TRUE, faces |-> <<DetectedFace("f1")>>],
      [present |-> TRUE, faces |-> <<DetectedFace("f1"), DetectedFace("f2")>>] }

\* an entry of req.body.assignments
Assignment(r, f, n) == [roll_number |-> r, face_id |-> f, studentName |-> n]

\* req.body.assignments under Spec: an empty list, one student, two students
\* (one of them named),
\* one roll number given to two faces, an entry without a roll number
WorkflowAssignments ==
    { <<>>,
      <<Assignment("A", "f1", "")>>,
      <<Assignment("A", "f1", ""), Assignment("C", "f2", "Cy")>>,
      <<Assignment("A", "f1", ""), Assignment("A", "f2", "")>>,
      <<Assignment(NoRoll, "f1", "")>> }

\* a face as the recognizer reports it (recognitionData.recognized_faces[i])
RecognizedFace(r) == [roll_number |-> r]

\* recognitionData.recognized_faces under Spec: a student of the roster, a
\* face the recognizer could not name
WorkflowRecognitions ==
    { <<RecognizedFace("A")>>, <<RecognizedFace(Unknown)>> }

\* recognitionData.recognized_faces under SpecRecord: every list of at most
\* n faces, each with a roll number, tagged 'Unknown', or without roll number
RecognizedLists(n) ==
    SeqsUpTo({RecognizedFace(r) : r \in Rolls \cup {Unknown, NoRoll}}, n)

\* the assignment lists that students were enrolled with under SpecRecord
EnrolledLists(n) == SeqsUpTo({Assignment(r, "f1", "") : r \in Rolls}, n)

\* how a call to the recognition service fails: an HTTP error status, or no
\* response at all (timeout, connection refused)
UpstreamFailures ==
    {[kind |-> "http", status |-> s] : s \in {400, 503}}
    \cup {[kind |-> "timeout", status |-> 0]}

NotCalled == [kind |-> "none", status |-> 0]
Answered == [kind |-> "ok", status |-> 200]

(* ------------------------- the Classroom schema ----------------------- *)

\* new Classroom({...}) as built by POST /; createdAt is new Date(), counted
\* in classrooms created so far
NewClassroom(c, name, teacher, createdAt) ==
    [ classroomId        |-> c,
      name               |-> name,
      teacher            |-> teacher,
      createdAt          |-> createdAt,
      students           |-> <<>>,
      attendanceSessions |-> <<>>,
      groupPhotoUploaded |-> FALSE,
      facesDetected      |-> 0,
      tempFaceData       |-> <<>>,
      datasetReady       |-> FALSE,
      modelTrained       |-> FALSE,
      isActive           |-> TRUE ]

\* studentSchema: rollNumber, name and faceId are required
ValidStudent(s) == s.rollNumber # "" /\ s.name # "" /\ s.faceId # ""

\* attendanceSessionSchema.attendanceResults: status is required and one of
\* 'present', 'absent'
ValidResult(r) == r.status \in {"present", "absent"}

\* attendanceSessionSchema: sessionId and attendanceImage are required
ValidSession(s) ==
    /\ s.sessionId # ""
    /\ s.attendanceImage # ""
    /\ \A i \in 1..Len(s.attendanceResults) : ValidResult(s.attendanceResults[i])

\* classroomSchema: what document.save() validates
ValidClassroom(doc) ==
    /\ doc.classroomId # ""
    /\ doc.name # ""
    /\ \A i \in 1..Len(doc.students) : ValidStudent(doc.students[i])
    /\ \A i \in 1..Len(doc.attendanceSessions) : ValidSession(doc.attendanceSessions[i])

(* ------------------------- requests in flight ------------------------- *)

\* the requests the server may be serving at once
Slots == {"r1", "r2"}

\* a slot with no request in it
Idle == [stage |-> "idle"]

NoRequests == [slot \in Slots |-> Idle]

(* ----------------------------- the queries ---------------------------- *)

\* a User document; its place in the collection stands for its _id
UserDoc(clerkId, email, firstName) ==
    [clerkId |-> clerkId, email |-> email, firstName |-> firstName]

\* User.findOne({ clerkId: userId })
UserFound(u) == \E i \in 1..Len(users) : users[i].clerkId = u

\* a lookup by classroomId and isActive alone, whoever the teacher is
ClassroomFoundAnyTeacher(u, c) ==
    /\ c \in DOMAIN db
    /\ db[c].isActive

\* Classroom.findOne({ classroomId, teacher: user._id, isActive: true })
ClassroomFound(u, c) ==
    /\ c \in DOMAIN db
    /\ db[c].teacher = u
    /\ db[c].isActive

(* ---------------------------- the responses --------------------------- *)

\* a request without query parameters, a response without a body of its own
NoQuery == [page |-> 0, limit |-> 0]
NoBody == [kind |-> "none"]

\* the record of a request answered before any call to the recognition
\* service.  input is what the request carried: the upload ("none", "image",
\* "oversized", "text"), the name of a classroom to create, "absent" or
\* "list" for req.body.assignments
Answer(op, u, c, input, status, message) ==
    [ op          |-> op,
      caller      |-> u,
      cid         |-> c,
      input       |-> input,
      assignments |-> <<>>,
      calls       |-> 0,
      upstream    |-> NotCalled,
      data        |-> <<>>,
      storage     |-> "none",
      query       |-> NoQuery,
      body        |-> NoBody,
      status      |-> status,
      message     |-> message ]

\* a handler that answers 500 whatever the recognition service said
UpstreamStatusAlways500(err) == 500

\* flaskError.response?.status || 500
UpstreamStatus(err) ==
    IF err.kind = "http" /\ err.status # 0 THEN err.status ELSE 500

\* the call to the recognition service fails: the inner catch mirrors the
\* upstream status, nothing is saved
CallFailed(base, failMessage) ==
    \E err \in UpstreamFailures :
       /\ db' = db
       /\ last' = [base EXCEPT !.calls = 1, !.upstream = err,
                               !.status = UpstreamStatus(err),
                               !.message = failMessage]

\* the call answered with data and doc is saved: await classroom.save()
\* validates the document and writes it; a save that throws (validation, or
\* the store failing) lands in the same inner catch, with no upstream
\* response to mirror
CallAnswered(base, c, doc, data, okMessage, failMessage) ==
    LET answered == [base EXCEPT !.calls = 1, !.upstream = Answered, !.data = data]
    IN  \/ /\ ~ValidClassroom(doc)
           /\ db' = db
           /\ last' = [answered EXCEPT !.storage = "invalid", !.status = 500,
                                       !.message = failMessage]
        \/ /\ ValidClassroom(doc)
           /\ db' = [db EXCEPT ![c] = doc]
           /\ last' = [answered EXCEPT !.storage = "ok", !.status = 200,
                                       !.message = okMessage]
        \/ /\ ValidClassroom(doc)
           /\ db' = db
           /\ last' = [answered EXCEPT !.storage = "failed", !.status = 500,
                                       !.message = failMessage]

(* ------------------------------ POST / -------------------------------- *)

\* new Date() at the creation of a classroom
Now == Cardinality(DOMAIN db) + 1

\* router.post('/'): classroomId is a uuid prefix; save() validates the
\* schema, the unique index on classroomId refuses an id in use (of any
\* teacher, active or not), and the store may fail
CreateClassroom(u, c, name) ==
    /\ UNCHANGED <<users, inflight>>
    /\ IF ~UserFound(u)
       THEN /\ last' = Answer("create", u, c, name, 404, "User not found")
            /\ db' = db
       ELSE LET doc == NewClassroom(c, name, u, Now)
                failed(why) ==
                    [Answer("create", u, c, name, 500, "Failed to create classroom")
                       EXCEPT !.storage = why]
            IN  IF ~ValidClassroom(doc)
                THEN /\ db' = db
                     /\ last' = failed("invalid")
                ELSE \/ /\ c \notin DOMAIN db
                        /\ db' = (c :> doc) @@ db
                        /\ last' = [Answer("create", u, c, name, 201,
                                           "Classroom created successfully")
                                      EXCEPT !.storage = "ok"]
                     \/ /\ c \in DOMAIN db
                        /\ db' = db
                        /\ last' = failed("duplicate")
                     \/ /\ db' = db
                        /\ last' = failed("failed")

(* ----------------------- GET / and GET /:classroomId ----------------- *)

\* the classrooms in S, newest first: .sort({ createdAt: -1 })
RECURSIVE NewestFirst(_)
NewestFirst(S) ==
    IF S = {} THEN <<>>
    ELSE LET d == CHOOSE x \in S : \A y \in S : y.createdAt <= x.createdAt
         IN  <<d>> \o NewestFirst(S \ {d})

\* router.get('/'): Classroom.find({ teacher, isActive: true })
ListClassrooms(u) ==
    /\ UNCHANGED <<db, users, inflight>>
    /\ IF ~UserFound(u)
       THEN last' = Answer("list", u, "", "none", 404, "User not found")
       ELSE last' = [Answer("list", u, "", "none", 200, "")
                       EXCEPT !.data = NewestFirst({db[c] : c \in
                                  {x \in DOMAIN db : ClassroomFound(u, x)}})]

\* router.get('/:classroomId')
GetClassroom(u, c) ==
    /\ UNCHANGED <<db, users, inflight>>
    /\ IF ~UserFound(u)
       THEN last' = Answer("get", u, c, "none", 404, "User not found")
       ELSE IF ~ClassroomFound(u, c)
       THEN last' = Answer("get", u, c, "none", 404, "Classroom not found")
       ELSE last' = [Answer("get", u, c, "none", 200, "") EXCEPT !.data = <<db[c]>>]

(* ------------------------- the upload filter -------------------------- *)

\* what a multipart request carries in its 'file' field: nothing, an image
\* within the size limit, an image over it, a file that is no image
Uploads == {"none", "image", "oversized", "text"}

\* an upload middleware with no size limit and no file filter
UploadAlwaysAccepted(file) == TRUE

\* multer({ limits: { fileSize }, fileFilter }): the handler runs with req.file
\* set (an accepted image) or unset; a refused file goes to the error handler
UploadAccepted(file) == file \in {"none", "image"}

\* app.use((err, req, res, next) => ...) of index.js for a refused upload
UploadRefused(op, u, c, file) ==
    /\ last' = Answer(op, u, c, file, 500, "Server error")
    /\ UNCHANGED <<db, users, inflight>>

(* ---------------- POST /:classroomId/upload-group-photo --------------- *)

\* flaskResponse.data.faces || []
DetectedFaces(r) == IF r.present THEN r.faces ELSE <<>>

\* detectedFaces.map(face => ({ faceId, bbox, faceImageUrl }))
TempFaceData(faces) ==
    [i \in 1..Len(faces) |->
        [faceId |-> faces[i].face_id,
         faceImageUrl |-> FLASK_API_URL \o faces[i].face_image_url]]

\* an upload that resets the dataset flag and forgets the model flag
PhotoUploadedKeepsModel(doc, faces) ==
    [doc EXCEPT !.groupPhotoUploaded = TRUE,
                !.facesDetected = Len(faces),
                !.tempFaceData = TempFaceData(faces),
                !.datasetReady = FALSE]

\* an upload that resets the model flag and forgets the dataset flag
PhotoUploadedKeepsDataset(doc, faces) ==
    [doc EXCEPT !.groupPhotoUploaded = TRUE,
                !.facesDetected = Len(faces),
                !.tempFaceData = TempFaceData(faces),
                !.modelTrained = FALSE]

\* the document as the handler changes it before classroom.save()
PhotoUploaded(doc, faces) ==
    [doc EXCEPT !.groupPhotoUploaded = TRUE,
                !.facesDetected = Len(faces),
                !.tempFaceData = TempFaceData(faces),
                !.datasetReady = FALSE,
                !.modelTrained = FALSE]

\* detections is the set of answers the detector may give
UploadGroupPhoto(u, c, file, detections) ==
    /\ UNCHANGED <<users, inflight>>
    /\ IF file = "none"
       THEN /\ last' = Answer("upload", u, c, file, 400, "No file uploaded")
            /\ db' = db
       ELSE IF ~UserFound(u)
       THEN /\ last' = Answer("upload", u, c, file, 404, "User not found")
            /\ db' = db
       ELSE IF ~ClassroomFound(u, c)
       THEN /\ last' = Answer("upload", u, c, file, 404, "Classroom not found")
            /\ db' = db
       ELSE LET base == Answer("upload", u, c, file, 0, "")
                failMessage == "Failed to process image with face detection service"
            IN  \/ CallFailed(base, failMessage)
                \/ \E r \in detections :
                      CallAnswered(base, c, PhotoUploaded(db[c], DetectedFaces(r)),
                                   DetectedFaces(r),
                                   "Group photo uploaded and faces detected successfully",
                                   failMessage)

(* ------------------ POST /:classroomId/assign-students ---------------- *)

\* assignments.map(assignment => ({ rollNumber, name, faceId, isActive }))
Students(assignments) ==
    [i \in 1..Len(assignments) |->
        [rollNumber |-> assignments[i].roll_number,
         name |-> IF assignments[i].studentName # ""
                  THEN assignments[i].studentName
                  ELSE "Student " \o assignments[i].roll_number,
         faceId |-> assignments[i].face_id,
         isActive |-> TRUE]]

\* an assignment that adds the new students to the roster in place
StudentsMerged(doc, assignments) ==
    [doc EXCEPT !.students = @ \o Students(assignments),
                !.datasetReady = TRUE,
                !.tempFaceData = <<>>]

\* the document as the handler changes it before classroom.save()
StudentsAssigned(doc, assignments) ==
    [doc EXCEPT !.students = Students(assignments),
                !.datasetReady = TRUE,
                !.tempFaceData = <<>>]

\* bodies is the set of req.body.assignments a client may send, besides none
\* at all (assignments.map then throws inside the inner try, after the call)
AssignStudents(u, c, sent, bodies) ==
    /\ UNCHANGED <<users, inflight>>
    /\ IF ~UserFound(u)
       THEN /\ last' = Answer("assign", u, c, sent, 404, "User not found")
            /\ db' = db
       ELSE IF ~ClassroomFound(u, c)
       THEN /\ last' = Answer("assign", u, c, sent, 404, "Classroom not found")
            /\ db' = db
       ELSE LET base == Answer("assign", u, c, sent, 0, "")
                failMessage == "Failed to assign students with face recognition service"
            IN  \/ CallFailed(base, failMessage)
                \/ /\ sent = "absent"
                   /\ db' = db
                   /\ last' = [base EXCEPT !.calls = 1, !.upstream = Answered,
                                           !.status = 500, !.message = failMessage]
                \/ /\ sent = "list"
                   /\ \E assignments \in bodies :
                         CallAnswered([base EXCEPT !.assignments = assignments], c,
                                      StudentsAssigned(db[c], assignments), <<>>,
                                      "Students assigned successfully", failMessage)

(* -------------------- POST /:classroomId/train-model ------------------ *)

\* train-model without the check for a model that is already trained
TrainRefusalDatasetOnly(doc) ==
    IF ~doc.datasetReady
    THEN "Dataset not ready. Please upload group photo and assign students first."
    ELSE ""

\* the two checks before the call: the message of the 400 answer, "" when
\* both pass
TrainRefusal(doc) ==
    IF ~doc.datasetReady
    THEN "Dataset not ready. Please upload group photo and assign students first."
    ELSE IF doc.modelTrained
    THEN "Model already trained for this classroom. Delete existing model to retrain."
    ELSE ""

\* the document as the handler changes it before classroom.save()
ModelTrained(doc) == [doc EXCEPT !.modelTrained = TRUE]

TrainModel(u, c) ==
    /\ UNCHANGED <<users, inflight>>
    /\ IF ~UserFound(u)
       THEN /\ last' = Answer("train", u, c, "none", 404, "User not found")
            /\ db' = db
       ELSE IF ~ClassroomFound(u, c)
       THEN /\ last' = Answer("train", u, c, "none", 404, "Classroom not found")
            /\ db' = db
       ELSE IF TrainRefusal(db[c]) # ""
       THEN /\ last' = Answer("train", u, c, "none", 400, TrainRefusal(db[c]))
            /\ db' = db
       ELSE LET base == Answer("train", u, c, "none", 0, "")
                failMessage == "Failed to train model with face recognition service"
            IN  \/ CallFailed(base, failMessage)
                \/ CallAnswered(base, c, ModelTrained(db[c]), <<>>,
                                "Model trained successfully", failMessage)

(* ----------------------- DELETE /:classroomId ------------------------- *)

\* a delete whose filter leaves out isActive: deleting twice succeeds twice
DeleteClassroomAgain(u, c) ==
    /\ UNCHANGED <<users, inflight>>
    /\ IF c \in DOMAIN db /\ db[c].teacher = u
       THEN /\ db' = [db EXCEPT ![c].isActive = FALSE]
            /\ last' = [Answer("delete", u, c, "none", 200,
                               "Classroom deleted successfully")
                          EXCEPT !.storage = "ok"]
       ELSE /\ last' = Answer("delete", u, c, "none", 404, "Classroom not found")
            /\ db' = db

\* Classroom.findOneAndUpdate({ classroomId, teacher, isActive: true },
\*                            { isActive: false })
DeleteClassroom(u, c) ==
    /\ UNCHANGED <<users, inflight>>
    /\ IF ~UserFound(u)
       THEN /\ last' = Answer("delete", u, c, "none", 404, "User not found")
            /\ db' = db
       ELSE IF ~ClassroomFound(u, c)
       THEN /\ last' = Answer("delete", u, c, "none", 404, "Classroom not found")
            /\ db' = db
       ELSE /\ db' = [db EXCEPT ![c].isActive = FALSE]
            /\ last' = [Answer("delete", u, c, "none", 200,
                               "Classroom deleted successfully")
                          EXCEPT !.storage = "ok"]

(* -------------------- POST /:classroomId/take ------------------------- *)

\* take without the check for a trained model
TakeRefusalNever(doc) == ""

\* if (!classroom.modelTrained) return res.status(400)
TakeRefusal(doc) ==
    IF ~doc.modelTrained
    THEN "Model not trained yet. Please train the model first."
    ELSE ""

\* the loop over recognizedFaces: a roll number seen for the first time gives
\* a 'present' entry, a face tagged 'Unknown' an 'unknown' entry, anything
\* else (a repeated or missing roll number) nothing
RECURSIVE Recognized(_, _, _)
Recognized(faces, attendanceResults, presentRollNumbers) ==
    IF faces = <<>>
    THEN [attendanceResults |-> attendanceResults,
          presentRollNumbers |-> presentRollNumbers]
    ELSE LET roll == Head(faces).roll_number
         IN  IF roll # "" /\ roll # Unknown /\ roll \notin presentRollNumbers
             THEN Recognized(Tail(faces),
                             Append(attendanceResults,
                                    [rollNumber |-> roll, status |-> "present"]),
                             presentRollNumbers \cup {roll})
             ELSE IF roll = Unknown
             THEN Recognized(Tail(faces),
                             Append(attendanceResults,
                                    [rollNumber |-> Unknown, status |-> "unknown"]),
                             presentRollNumbers)
             ELSE Recognized(Tail(faces), attendanceResults, presentRollNumbers)

\* classroom.students.filter(student =>
\*     !presentRollNumbers.has(student.rollNumber)).length
AbsentCount(students, presentRollNumbers) ==
    Cardinality({i \in 1..Len(students) :
                    students[i].rollNumber \notin presentRollNumbers})

\* const attendanceSession = { sessionId, totalStudents, presentCount, ... };
\* createdAt is new Date(), counted in sessions recorded so far
AttendanceSession(doc, sessionId, faces, imageUrl) ==
    LET seen == Recognized(faces, <<>>, {})
    IN  [ sessionId         |-> sessionId,
          createdAt         |-> Len(doc.attendanceSessions) + 1,
          totalStudents     |-> Len(doc.students),
          presentCount      |-> Cardinality(seen.presentRollNumbers),
          absentCount       |-> AbsentCount(doc.students, seen.presentRollNumbers),
          attendanceImage   |-> FLASK_API_URL \o imageUrl,
          attendanceResults |-> seen.attendanceResults ]

\* a handler that assigns the session list instead of pushing to it
SessionOverwritten(doc, session) ==
    [doc EXCEPT !.attendanceSessions = <<session>>]

\* classroom.attendanceSessions.push(attendanceSession)
SessionRecorded(doc, session) ==
    [doc EXCEPT !.attendanceSessions = Append(@, session)]

\* recognitionData.image_url
ResultImage == "/results/annotated.jpg"

\* uuidv4().substring(0, 8): an id no session of the classroom has yet
NewSessionId(doc) == "s" \o ToString(Len(doc.attendanceSessions) + 1)

\* lists is the set of face lists the recognizer may answer with
TakeAttendance(u, c, file, lists) ==
    /\ UNCHANGED <<users, inflight>>
    /\ IF file = "none"
       THEN /\ last' = Answer("take", u, c, file, 400, "No file uploaded")
            /\ db' = db
       ELSE IF ~UserFound(u)
       THEN /\ last' = Answer("take", u, c, file, 404, "User not found")
            /\ db' = db
       ELSE IF ~ClassroomFound(u, c)
       THEN /\ last' = Answer("take", u, c, file, 404, "Classroom not found")
            /\ db' = db
       ELSE IF TakeRefusal(db[c]) # ""
       THEN /\ last' = Answer("take", u, c, file, 400, TakeRefusal(db[c]))
            /\ db' = db
       ELSE LET base == Answer("take", u, c, file, 0, "")
                failMessage ==
                    "Failed to process attendance with face recognition service"
            IN  \/ CallFailed(base, failMessage)
                \/ \E faces \in lists :
                      CallAnswered(base, c,
                          SessionRecorded(db[c],
                              AttendanceSession(db[c], NewSessionId(db[c]), faces,
                                                ResultImage)),
                          faces, "Attendance recorded successfully", failMessage)

(* -------------------- GET /:classroomId/history ----------------------- *)

\* the lookups of the reads: the message of the 404 answer, "" when the
\* classroom is found
ReadRefusal(u, c) ==
    IF ~UserFound(u) THEN "User not found"
    ELSE IF ~ClassroomFound(u, c) THEN "Classroom not found"
    ELSE ""

\* const { page = 1, limit = 10 } = req.query
DefaultPage == 1
DefaultLimit == 10

\* Array.prototype.sort on createdAt, which is stable: newest first
\* (b.createdAt - a.createdAt) or oldest first (a.createdAt - b.createdAt)
RECURSIVE SortSessions(_, _)
SortSessions(sessions, newestFirst) ==
    IF sessions = <<>> THEN <<>>
    ELSE LET n == Len(sessions)
             x == sessions[n]
             rest == SortSessions(SubSeq(sessions, 1, n - 1), newestFirst)
             stays == {i \in 1..Len(rest) :
                          IF newestFirst
                          THEN rest[i].createdAt >= x.createdAt
                          ELSE rest[i].createdAt <= x.createdAt}
             k == Cardinality(stays)
         IN  SubSeq(rest, 1, k) \o <<x>> \o SubSeq(rest, k + 1, Len(rest))

\* Array.prototype.slice(from, to) for 0 <= from: 0-based, to excluded
Slice(seq, from, to) ==
    SubSeq(seq, from + 1, IF to < Len(seq) THEN to ELSE Len(seq))

\* a skip that counts pages from 0
SkipFromZero(page, limit) == page * limit

\* const skip = (page - 1) * limit
Skip(page, limit) == (page - 1) * limit

\* Math.ceil(totalSessions / limit)
TotalPages(totalSessions, limit) == (totalSessions + limit - 1) \div limit

\* res.json({ sessions, pagination })
HistoryBody(doc, page, limit) ==
    LET totalSessions == Len(doc.attendanceSessions)
        totalPages == TotalPages(totalSessions, limit)
        skip == Skip(page, limit)
    IN  [ kind       |-> "history",
          sessions   |-> Slice(SortSessions(doc.attendanceSessions, TRUE),
                               skip, skip + limit),
          pagination |-> [ currentPage   |-> page,
                           totalPages    |-> totalPages,
                           totalSessions |-> totalSessions,
                           hasNextPage   |-> page < totalPages,
                           hasPrevPage   |-> page > 1 ] ]

\* router.get('/:classroomId/history'); nothing is saved
GetHistory(u, c, page, limit) ==
    LET asked == [Answer("history", u, c, "none", 200, "")
                    EXCEPT !.query = [page |-> page, limit |-> limit]]
    IN  /\ UNCHANGED <<db, users, inflight>>
        /\ IF ReadRefusal(u, c) # ""
           THEN last' = [asked EXCEPT !.status = 404, !.message = ReadRefusal(u, c)]
           ELSE last' = [asked EXCEPT !.body = HistoryBody(db[c], page, limit)]

(* ------------------- GET /:classroomId/analytics ---------------------- *)

\* a JavaScript number that is a quotient: num / den; den = 0 is the NaN or
\* Infinity of a division by zero
Zero == [num |-> 0, den |-> 1]

\* (part / whole) * 100
Percentage(part, whole) == [num |-> part * 100, den |-> whole]

\* sessions.reduce((sum, session) => sum + session.presentCount, 0)
RECURSIVE TotalPresent(_)
TotalPresent(sessions) ==
    IF sessions = <<>> THEN 0
    ELSE Head(sessions).presentCount + TotalPresent(Tail(sessions))

\* an average over each session's own totalStudents
AverageOfRecorded(doc) ==
    LET RECURSIVE Enrolled(_)
        Enrolled(ss) == IF ss = <<>> THEN 0
                        ELSE Head(ss).totalStudents + Enrolled(Tail(ss))
    IN  Percentage(TotalPresent(doc.attendanceSessions),
                   Enrolled(doc.attendanceSessions))

\* an average without the check for an empty roster
AverageUnguarded(doc) ==
    Percentage(TotalPresent(doc.attendanceSessions),
               Len(doc.attendanceSessions) * Len(doc.students))

\* const averageAttendance = (totalSessions > 0 && students.length > 0) ? ... : 0
AverageAttendance(doc) ==
    IF Len(doc.attendanceSessions) > 0 /\ Len(doc.students) > 0
    THEN Percentage(TotalPresent(doc.attendanceSessions),
                    Len(doc.attendanceSessions) * Len(doc.students))
    ELSE Zero

\* .slice(-10): the trend shows the last ten sessions
TrendWindow == 10

\* sessions.sort(oldest first).slice(-10).map(session => ({ date, percentage }))
AttendanceTrend(doc) ==
    LET sorted == SortSessions(doc.attendanceSessions, FALSE)
        from == IF Len(sorted) > TrendWindow THEN Len(sorted) - TrendWindow ELSE 0
        shown == Slice(sorted, from, Len(sorted))
    IN  [i \in 1..Len(shown) |->
            [date |-> shown[i].createdAt,
             percentage |-> IF Len(doc.students) > 0
                            THEN Percentage(shown[i].presentCount, Len(doc.students))
                            ELSE Zero]]

\* the sessions with a 'present' result, whoever it is for
SessionsWithAnyone(sessions, rollNumber) ==
    Cardinality({i \in 1..Len(sessions) :
        \E k \in 1..Len(sessions[i].attendanceResults) :
            sessions[i].attendanceResults[k].status = "present"})

\* the sessions with a 'present' result for the roll number
SessionsPresent(sessions, rollNumber) ==
    Cardinality({i \in 1..Len(sessions) :
        \E k \in 1..Len(sessions[i].attendanceResults) :
            /\ sessions[i].attendanceResults[k].rollNumber = rollNumber
            /\ sessions[i].attendanceResults[k].status = "present"})

\* classroom.students.map(student => ({ rollNumber, name, presentCount, ... }))
StudentAttendance(doc) ==
    LET totalSessions == Len(doc.attendanceSessions)
    IN  [i \in 1..Len(doc.students) |->
            LET presentCount ==
                    SessionsPresent(doc.attendanceSessions, doc.students[i].rollNumber)
            IN  [rollNumber    |-> doc.students[i].rollNumber,
                 name          |-> doc.students[i].name,
                 presentCount  |-> presentCount,
                 totalSessions |-> totalSessions,
                 percentage    |-> IF totalSessions > 0
                                   THEN Percentage(presentCount, totalSessions)
                                   ELSE Zero]]

\* res.json({ totalSessions, averageAttendance, attendanceTrend, studentAttendance })
AnalyticsBody(doc) ==
    IF Len(doc.attendanceSessions) = 0
    THEN [ kind |-> "analytics", totalSessions |-> 0, averageAttendance |-> Zero,
           attendanceTrend |-> <<>>, studentAttendance |-> <<>> ]
    ELSE [ kind              |-> "analytics",
           totalSessions     |-> Len(doc.attendanceSessions),
           averageAttendance |-> AverageAttendance(doc),
           attendanceTrend   |-> AttendanceTrend(doc),
           studentAttendance |-> StudentAttendance(doc) ]

\* router.get('/:classroomId/analytics'); nothing is saved
GetAnalytics(u, c) ==
    /\ UNCHANGED <<db, users, inflight>>
    /\ IF ReadRefusal(u, c) # ""
       THEN last' = Answer("analytics", u, c, "none", 404, ReadRefusal(u, c))
       ELSE last' = [Answer("analytics", u, c, "none", 200, "")
                       EXCEPT !.body = AnalyticsBody(db[c])]

(* ------------------------ POST /api/auth/sync ------------------------- *)

\* req.body.user as Clerk sends it: id "" stands for a body without user or
\* without user.id, email "" for a user without a first email address
SyncUser(id, email, firstName) == [id |-> id, email |-> email, firstName |-> firstName]

\* userSchema: clerkId, email and firstName are required
ValidUser(doc) == doc.clerkId # "" /\ doc.email # "" /\ doc.firstName # ""

\* a collection without the unique index on clerkId
ClerkIdNeverTaken(id) == FALSE

\* the unique index on clerkId refuses a second document with the id
ClerkIdTaken(id) == \E i \in 1..Len(users) : users[i].clerkId = id

\* the unique index on email refuses the email of a document other than k
EmailTaken(email, k) ==
    \E i \in 1..Len(users) : i # k /\ users[i].email = email

\* router.post('/sync') up to await User.findOne({ clerkId: user.id }): the
\* request answers 400 at once or goes on with what it found (existing = 0
\* for no document)
SyncFind(slot, user) ==
    /\ inflight[slot] = Idle
    /\ UNCHANGED <<db, users>>
    /\ IF user.id = ""
       THEN /\ last' = Answer("sync", "", "", "none", 400, "User data is required")
            /\ inflight' = inflight
       ELSE /\ last' = last
            /\ inflight' = [inflight EXCEPT ![slot] =
                  LET k == IF UserFound(user.id)
                           THEN CHOOSE i \in 1..Len(users) : users[i].clerkId = user.id
                           ELSE 0
                  IN  [stage    |-> "found",
                       op       |-> "sync",
                       user     |-> user,
                       existing |-> k,
                       loaded   |-> IF k = 0 THEN UserDoc("", "", "") ELSE users[k]]]

\* router.post('/sync') from new User(...) or the field updates to its
\* response: save() inserts the new document, or writes the changed fields of
\* the document found, under validation and the unique indexes
SyncSave(slot) ==
    /\ inflight[slot].stage = "found"
    /\ inflight' = [inflight EXCEPT ![slot] = Idle]
    /\ db' = db
    /\ LET r == inflight[slot]
           base == [Answer("sync", r.user.id, "", "none", 0, "")
                      EXCEPT !.data = <<r.user>>]
           failed(why) == [base EXCEPT !.status = 500, !.storage = why,
                                       !.message = "Failed to sync user"]
           synced == [base EXCEPT !.status = 200, !.storage = "ok",
                                  !.message = "User synced successfully"]
           doc == IF r.existing = 0
                  THEN UserDoc(r.user.id, r.user.email, r.user.firstName)
                  ELSE [r.loaded EXCEPT !.email = r.user.email,
                                        !.firstName = r.user.firstName]
       IN  IF ~ValidUser(doc)
           THEN users' = users /\ last' = failed("invalid")
           ELSE IF r.existing = 0
           THEN IF ClerkIdTaken(doc.clerkId) \/ EmailTaken(doc.email, 0)
                THEN users' = users /\ last' = failed("duplicate")
                ELSE \/ users' = Append(users, doc) /\ last' = synced
                     \/ users' = users /\ last' = failed("failed")
           ELSE IF doc.email # r.loaded.email /\ EmailTaken(doc.email, r.existing)
                THEN users' = users /\ last' = failed("duplicate")
                ELSE \/ /\ users' = [users EXCEPT ![r.existing] =
                              [@ EXCEPT !.email = IF doc.email # r.loaded.email
                                                  THEN doc.email ELSE @,
                                        !.firstName = IF doc.firstName # r.loaded.firstName
                                                      THEN doc.firstName ELSE @]]
                        /\ last' = synced
                     \/ users' = users /\ last' = failed("failed")

(* ------------- workflow requests that overlap in time ----------------- *)

\* the paths of the document a handler changed since it loaded it: what
\* document.save() sends as $set (a push as $push)
ModifiedPaths(loaded, doc) == {f \in DOMAIN doc : doc[f] # loaded[f]}

\* array paths the handlers assign as a whole: a save that sets one of them
\* carries the __v it loaded in its filter and fails when the stored __v has
\* moved on (VersionError)
VersionedPaths == {"students", "tempFaceData"}

\* the stored document after a save of the modified paths of doc
Saved(stored, loaded, doc) ==
    [f \in DOMAIN stored |->
        IF f \notin ModifiedPaths(loaded, doc) THEN stored[f]
        ELSE IF f = "attendanceSessions"
        THEN stored[f] \o SubSeq(doc[f], Len(loaded[f]) + 1, Len(doc[f]))
        ELSE doc[f]]

\* the messages of the workflow handlers: success, failure of the inner try
RequestMessages(op) ==
    CASE op = "upload" ->
           [ok |-> "Group photo uploaded and faces detected successfully",
            failed |-> "Failed to process image with face detection service"]
      [] op = "assign" ->
           [ok |-> "Students assigned successfully",
            failed |-> "Failed to assign students with face recognition service"]
      [] op = "train" ->
           [ok |-> "Model trained successfully",
            failed |-> "Failed to train model with face recognition service"]
      [] op = "take" ->
           [ok |-> "Attendance recorded successfully",
            failed |-> "Failed to process attendance with face recognition service"]

\* what the request carried, as Answer records it
RequestInput(op) ==
    CASE op \in {"upload", "take"} -> "image"
      [] op = "assign" -> "list"
      [] op = "train" -> "none"

\* a workflow handler from its first line to its axios call: the lookups and
\* the precondition answer at once; otherwise the request holds the document
\* it loaded while the recognition service works.  overlapped: another
\* request held the same classroom then
LoadRequest(slot, op, u, c, payload) ==
    /\ inflight[slot] = Idle
    /\ UNCHANGED <<db, users>>
    /\ LET message == IF ReadRefusal(u, c) # "" THEN ReadRefusal(u, c)
                      ELSE IF op = "train" THEN TrainRefusal(db[c])
                      ELSE IF op = "take" THEN TakeRefusal(db[c])
                      ELSE ""
           others == {s \in Slots \ {slot} :
                         inflight[s].stage = "called" /\ inflight[s].cid = c}
       IN  IF message # ""
           THEN /\ last' = Answer(op, u, c, RequestInput(op),
                                  IF ReadRefusal(u, c) # "" THEN 404 ELSE 400, message)
                /\ inflight' = inflight
           ELSE /\ last' = last
                /\ inflight' = [s \in Slots |->
                      IF s = slot
                      THEN [stage |-> "called", op |-> op, caller |-> u, cid |-> c,
                            payload |-> payload, loaded |-> db[c], stale |-> FALSE,
                            overlapped |-> others # {}]
                      ELSE IF s \in others
                      THEN [inflight[s] EXCEPT !.overlapped = TRUE]
                      ELSE inflight[s]]

\* the document as the handler of request r changes it once the recognition
\* service answered with data
Changed(r, slot, data) ==
    CASE r.op = "upload" -> PhotoUploaded(r.loaded, DetectedFaces(data))
      [] r.op = "assign" -> StudentsAssigned(r.loaded, r.payload)
      [] r.op = "train" -> ModelTrained(r.loaded)
      [] r.op = "take" ->
           SessionRecorded(r.loaded,
               AttendanceSession(r.loaded, "s-" \o slot, data, ResultImage))

\* a workflow handler from the answer of its axios call to its response
SaveRequest(slot, answers) ==
    /\ inflight[slot].stage = "called"
    /\ users' = users
    /\ LET r == inflight[slot]
           c == r.cid
           messages == RequestMessages(r.op)
           base == [Answer(r.op, r.caller, c, RequestInput(r.op), 0, "")
                      EXCEPT !.calls = 1]
           Done(answer, bumped) ==
               [s \in Slots |->
                   IF s = slot
                   THEN [stage |-> "done", op |-> r.op, cid |-> c,
                         payload |-> r.payload, overlapped |-> r.overlapped,
                         upstream |-> answer.upstream.kind,
                         storage |-> answer.storage, status |-> answer.status]
                   ELSE IF bumped /\ inflight[s].stage = "called" /\ inflight[s].cid = c
                   THEN [inflight[s] EXCEPT !.stale = TRUE]
                   ELSE inflight[s]]
           Refused(answered, why) ==
               /\ db' = db
               /\ last' = [answered EXCEPT !.storage = why, !.status = 500,
                                           !.message = messages.failed]
               /\ inflight' = Done(last', FALSE)
       IN  \/ \E err \in UpstreamFailures :
                /\ db' = db
                /\ last' = [base EXCEPT !.upstream = err,
                                        !.status = UpstreamStatus(err),
                                        !.message = messages.failed]
                /\ inflight' = Done(last', FALSE)
           \/ \E data \in answers[r.op] :
                LET doc == Changed(r, slot, data)
                    modified == ModifiedPaths(r.loaded, doc)
                    answered == [base EXCEPT !.upstream = Answered,
                                   !.data = IF r.op \in {"upload", "take"}
                                            THEN IF r.op = "upload"
                                                 THEN DetectedFaces(data) ELSE data
                                            ELSE <<>>,
                                   !.assignments = IF r.op = "assign"
                                                   THEN r.payload ELSE <<>>]
                IN  IF ~ValidClassroom(doc)
                    THEN Refused(answered, "invalid")
                    ELSE IF modified \cap VersionedPaths # {} /\ r.stale
                    THEN Refused(answered, "conflict")
                    ELSE \/ /\ db' = [db EXCEPT ![c] = Saved(db[c], r.loaded, doc)]
                            /\ last' = [answered EXCEPT !.storage = "ok",
                                                        !.status = 200,
                                                        !.message = messages.ok]
                            /\ inflight' = Done(last',
                                   modified \cap (VersionedPaths
                                       \cup {"attendanceSessions"}) # {})
                         \/ Refused(answered, "failed")

(* --------------------------- specifications --------------------------- *)

\* fewer than n sessions are recorded for classroom c (the model's cap)
LedgerBelow(c, n) == c \in DOMAIN db => Len(db[c].attendanceSessions) < n

Init ==
    /\ db = <<>>
    /\ users = <<UserDoc("u1", "ann@school", "Ann")>>
    /\ inflight = NoRequests
    /\ last = Answer("none", "", "", "none", 0, "")

Next ==
    \/ \E u \in Callers, c \in ClassroomIds, name \in {"", "Math"} :
           CreateClassroom(u, c, name)
    \/ \E rq \in Requests, file \in Uploads :
           IF UploadAccepted(file)
           THEN UploadGroupPhoto(rq[1], rq[2], file, WorkflowDetections)
           ELSE UploadRefused("upload", rq[1], rq[2], file)
    \/ \E rq \in Requests, sent \in {"absent", "list"} :
           AssignStudents(rq[1], rq[2], sent, WorkflowAssignments)
    \/ \E rq \in Requests : TrainModel(rq[1], rq[2])
    \/ \E rq \in Requests, file \in Uploads :
           /\ LedgerBelow(rq[2], MaxSessions)
           /\ IF UploadAccepted(file)
              THEN TakeAttendance(rq[1], rq[2], file, WorkflowRecognitions)
              ELSE UploadRefused("take", rq[1], rq[2], file)
    \/ \E rq \in Requests : DeleteClassroom(rq[1], rq[2])
    \/ \E rq \in Requests : GetHistory(rq[1], rq[2], DefaultPage, DefaultLimit)
    \/ \E rq \in Requests : GetAnalytics(rq[1], rq[2])

Spec == Init /\ [][Next]_vars

\* a classroom of u1 that went through upload, assign-students with the list
\* a, and train-model
TrainedClassroom(a) ==
    ModelTrained(StudentsAssigned(
        PhotoUploaded(NewClassroom("c1", "Math", "u1", 1), <<>>), a))

InitRecord ==
    /\ \E a \in EnrolledLists(MaxAssign) : db = ("c1" :> TrainedClassroom(a))
    /\ users = <<UserDoc("u1", "ann@school", "Ann")>>
    /\ inflight = NoRequests
    /\ last = Answer("none", "", "", "none", 0, "")

NextRecord ==
    /\ LedgerBelow("c1", MaxRecorded)
    /\ TakeAttendance("u1", "c1", "image", RecognizedLists(MaxRecognized))

SpecRecord == InitRecord /\ [][NextRecord]_vars

\* the session take records for the face list faces, as the i-th session of
\* a classroom enrolled with the list a, at instant t
Recorded(a, i, faces, t) ==
    [AttendanceSession(TrainedClassroom(a), "s" \o ToString(i), faces, ResultImage)
        EXCEPT !.createdAt = t]

\* ledgers of at most MaxHistory sessions, created at any instants
HistoryLedgers ==
    { [i \in 1..Len(t) |->
          Recorded(<<Assignment("A", "f1", "")>>, i, <<RecognizedFace("A")>>, t[i])] :
      t \in SeqsUpTo(1..MaxStamp, MaxHistory) }

\* req.query of history: page and limit given, or both left to the defaults
HistoryQueries ==
    ((1..MaxPage) \X (1..MaxLimit)) \cup {<<DefaultPage, DefaultLimit>>}

InitHistory ==
    /\ \E ledger \in HistoryLedgers :
          db = ("c1" :> [TrainedClassroom(<<Assignment("A", "f1", "")>>)
                           EXCEPT !.attendanceSessions = ledger])
    /\ users = <<UserDoc("u1", "ann@school", "Ann")>>
    /\ inflight = NoRequests
    /\ last = Answer("none", "", "", "none", 0, "")

NextHistory == \E q \in HistoryQueries : GetHistory("u1", "c1", q[1], q[2])

SpecHistory == InitHistory /\ [][NextHistory]_vars

\* sessions as take recorded them, each on the roster of its day (which need
\* not be the roster of today) and on a list of recognized students
AnalysedLedgers ==
    LET days == EnrolledLists(MaxAssign) \X
                SeqsUpTo({RecognizedFace(r) : r \in Rolls}, MaxSeen)
    IN  { [i \in 1..Len(d) |-> Recorded(d[i][1], i, d[i][2], i)] :
          d \in SeqsUpTo(days, MaxAnalysed) }

InitAnalytics ==
    /\ \E a \in EnrolledLists(MaxAssign), ledger \in AnalysedLedgers :
          db = ("c1" :> [TrainedClassroom(a) EXCEPT !.attendanceSessions = ledger])
    /\ users = <<UserDoc("u1", "ann@school", "Ann")>>
    /\ inflight = NoRequests
    /\ last = Answer("none", "", "", "none", 0, "")

NextAnalytics == GetAnalytics("u1", "c1")

SpecAnalytics == InitAnalytics /\ [][NextAnalytics]_vars

\* under SpecRace: a classroom of u1 whose dataset is ready, or one that is
\* trained as well, both with the roster [A]
RaceStarts ==
    { StudentsAssigned(PhotoUploaded(NewClassroom("c1", "Math", "u1", 1), <<>>),
                       <<Assignment("A", "f1", "")>>),
      TrainedClassroom(<<Assignment("A", "f1", "")>>) }

\* the lists two assign-students requests may carry
RaceAssignments ==
    { <<Assignment("A", "f1", ""), Assignment("C", "f2", "")>>,
      <<Assignment("C", "f1", "")>> }

\* what the recognition service answers to each call
RaceAnswers ==
    [ upload |-> {[present |-> TRUE, faces |-> <<DetectedFace("f1")>>]},
      assign |-> {<<>>},
      train  |-> {<<>>},
      take   |-> {<<RecognizedFace("A")>>} ]

InitRace ==
    /\ \E doc \in RaceStarts : db = ("c1" :> doc)
    /\ users = <<UserDoc("u1", "ann@school", "Ann")>>
    /\ last = Answer("none", "", "", "none", 0, "")
    /\ inflight = NoRequests

\* each slot serves one workflow request of u1 on c1; the two may overlap,
\* and the classroom may be deleted at any time
NextRace ==
    \/ \E slot \in Slots : LoadRequest(slot, "upload", "u1", "c1", <<>>)
    \/ \E slot \in Slots, a \in RaceAssignments :
           LoadRequest(slot, "assign", "u1", "c1", a)
    \/ \E slot \in Slots : LoadRequest(slot, "train", "u1", "c1", <<>>)
    \/ \E slot \in Slots : LoadRequest(slot, "take", "u1", "c1", <<>>)
    \/ \E slot \in Slots : SaveRequest(slot, RaceAnswers)
    \/ DeleteClassroom("u1", "c1")

SpecRace == InitRace /\ [][NextRace]_vars

\* what Clerk may send to /sync
SyncUsers ==
    {SyncUser(id, email, "Ann") :
        id \in {""} \cup Callers,
        email \in {"", "ann@school", "bea@school", "cy@school"}}

\* u1 is registered and has a trained classroom; u2 is not registered yet
InitSync ==
    /\ db = ("c1" :> TrainedClassroom(<<Assignment("A", "f1", "")>>))
    /\ users = <<UserDoc("u1", "ann@school", "Ann")>>
    /\ last = Answer("none", "", "", "none", 0, "")
    /\ inflight = NoRequests

\* sync requests, two at a time at most, and the classroom and attendance
\* requests of a caller who has no User document
NextSync ==
    \/ \E slot \in Slots, user \in SyncUsers : SyncFind(slot, user)
    \/ \E slot \in Slots : SyncSave(slot)
    \/ \E u \in Callers : ~UserFound(u) /\ CreateClassroom(u, "c2", "Math")
    \/ \E u \in Callers : ~UserFound(u) /\ ListClassrooms(u)
    \/ \E u \in Callers : ~UserFound(u) /\ GetClassroom(u, "c1")
    \/ \E u \in Callers, file \in {"none", "image"} :
           ~UserFound(u) /\ UploadGroupPhoto(u, "c1", file, WorkflowDetections)
    \/ \E u \in Callers :
           ~UserFound(u) /\ AssignStudents(u, "c1", "list", WorkflowAssignments)
    \/ \E u \in Callers : ~UserFound(u) /\ TrainModel(u, "c1")
    \/ \E u \in Callers, file \in {"none", "image"} :
           ~UserFound(u) /\ TakeAttendance(u, "c1", file, WorkflowRecognitions)
    \/ \E u \in Callers : ~UserFound(u) /\ DeleteClassroom(u, "c1")
    \/ \E u \in Callers :
           ~UserFound(u) /\ GetHistory(u, "c1", DefaultPage, DefaultLimit)
    \/ \E u \in Callers : ~UserFound(u) /\ GetAnalytics(u, "c1")

SpecSync == InitSync /\ [][NextSync]_vars

\* two teachers: c1 may belong to either, c2 belongs to u2, no classroom has
\* the id zz
OwnerIds == {"c1", "c2"}

OwnerRequests == Callers \X (OwnerIds \cup {"zz"})

InitOwners ==
    /\ db = <<>>
    /\ users = <<UserDoc("u1", "ann@school", "Ann"), UserDoc("u2", "bea@school", "Bea")>>
    /\ inflight = NoRequests
    /\ last = Answer("none", "", "", "none", 0, "")

NextOwners ==
    \/ \E u \in Callers, c \in OwnerIds :
           /\ c = "c2" => u = "u2"
           /\ CreateClassroom(u, c, "Math")
    \/ \E u \in Callers : ListClassrooms(u)
    \/ \E rq \in OwnerRequests : GetClassroom(rq[1], rq[2])
    \/ \E rq \in OwnerRequests :
           UploadGroupPhoto(rq[1], rq[2], "image",
                            {[present |-> TRUE, faces |-> <<DetectedFace("f1")>>]})
    \/ \E rq \in OwnerRequests :
           AssignStudents(rq[1], rq[2], "list", {<<Assignment("A", "f1", "")>>})
    \/ \E rq \in OwnerRequests : TrainModel(rq[1], rq[2])
    \/ \E rq \in OwnerRequests :
           /\ LedgerBelow(rq[2], MaxOwnerSessions)
           /\ TakeAttendance(rq[1], rq[2], "image", {<<RecognizedFace("A")>>})
    \/ \E rq \in OwnerRequests : DeleteClassroom(rq[1], rq[2])
    \/ \E rq \in OwnerRequests :
           GetHistory(rq[1], rq[2], DefaultPage, DefaultLimit)
    \/ \E rq \in OwnerRequests : GetAnalytics(rq[1], rq[2])

SpecOwners == InitOwners /\ [][NextOwners]_vars

(* ------------------------------- claims ------------------------------- *)

\* C1: every classroom with datasetReady = true has a non-empty students
\* roster and an empty tempFaceData.
C1_DatasetReadyHasRoster ==
    \A c \in DOMAIN db :
        db[c].datasetReady =>
            /\ Len(db[c].students) > 0
            /\ db[c].tempFaceData = <<>>

\* C2: modelTrained = true implies datasetReady = true in every state
\* reachable by requests handled one after another.
C2_TrainedImpliesReady ==
    \A c \in DOMAIN db : db[c].modelTrained => db[c].datasetReady

\* a train-model request has just succeeded
C2_Trained ==
    /\ last.op = "train"
    /\ last.status = 200
    /\ db[last.cid].modelTrained

\* C3: a successful upload-group-photo leaves groupPhotoUploaded = true,
\* datasetReady = false, modelTrained = false and tempFaceData equal to the
\* detector's face list (image URLs made absolute); from then on modelTrained
\* becomes true only by a successful train-model on a ready dataset,
\* datasetReady only by a successful assign-students, and no take succeeds
\* while modelTrained is false.
C3_UploadResets ==
    /\ [](last.op = "upload" /\ last.status = 200 =>
            LET doc == db[last.cid]
            IN  /\ doc.groupPhotoUploaded
                /\ ~doc.datasetReady
                /\ ~doc.modelTrained
                /\ Len(doc.tempFaceData) = Len(last.data)
                /\ \A i \in 1..Len(last.data) :
                      /\ doc.tempFaceData[i].faceId = last.data[i].face_id
                      /\ doc.tempFaceData[i].faceImageUrl
                            = FLASK_API_URL \o last.data[i].face_image_url)
    /\ [][\A c \in DOMAIN db :
            /\ (~db[c].modelTrained /\ db'[c].modelTrained) =>
                  (last'.op = "train" /\ last'.status = 200 /\ db[c].datasetReady)
            /\ (~db[c].datasetReady /\ db'[c].datasetReady) =>
                  (last'.op = "assign" /\ last'.status = 200)
            /\ (~db[c].modelTrained /\ last'.op = "take" /\ last'.cid = c) =>
                  last'.status # 200]_vars

\* an upload has just succeeded on a classroom that had been trained (it has
\* a session) and the detector found two faces
C3_UploadedAfterTraining ==
    /\ last.op = "upload"
    /\ last.status = 200
    /\ Len(last.data) = 2
    /\ Len(db[last.cid].attendanceSessions) > 0

\* C4: train-model on a classroom found for the caller answers 400, calls
\* the training endpoint zero times and changes nothing when datasetReady is
\* false or modelTrained is true; otherwise it calls the endpoint once and, on
\* success, sets modelTrained and nothing else (on failure nothing).
C4_TrainPreconditions ==
    [][(last'.op = "train" /\ UserFound(last'.caller)
            /\ ClassroomFound(last'.caller, last'.cid)) =>
          LET c == last'.cid
          IN  IF ~db[c].datasetReady \/ db[c].modelTrained
              THEN last'.status = 400 /\ last'.calls = 0 /\ db' = db
              ELSE /\ last'.calls = 1
                   /\ last'.status = 200 =>
                         db' = [db EXCEPT ![c].modelTrained = TRUE]
                   /\ last'.status # 200 => db' = db]_vars

\* train-model has just been refused on a classroom that is already trained
C4_RetrainRefused ==
    /\ last.op = "train"
    /\ last.status = 400
    /\ last.calls = 0
    /\ last.cid \in DOMAIN db
    /\ db[last.cid].modelTrained

\* C5: take on a classroom found for the caller whose modelTrained is false
\* calls the recognition endpoint zero times and changes nothing, answering
\* 400 'Model not trained yet' when the request carries an image; and every
\* session is appended by a take request on a classroom with modelTrained.
C5_TakeNeedsModel ==
    [][/\ (last'.op = "take" /\ UserFound(last'.caller)
              /\ ClassroomFound(last'.caller, last'.cid)
              /\ ~db[last'.cid].modelTrained) =>
             /\ last'.calls = 0
             /\ db' = db
             /\ last'.input = "image" =>
                   /\ last'.status = 400
                   /\ last'.message
                        = "Model not trained yet. Please train the model first."
       /\ \A c \in DOMAIN db :
             Len(db'[c].attendanceSessions) > Len(db[c].attendanceSessions) =>
                 (last'.op = "take" /\ last'.cid = c /\ db[c].modelTrained)]_vars

\* take has just been refused on a labelled classroom that is not trained
C5_TakeRefused ==
    /\ last.op = "take"
    /\ last.input = "image"
    /\ last.status = 400
    /\ last.calls = 0
    /\ last.cid \in DOMAIN db
    /\ db[last.cid].datasetReady
    /\ ~db[last.cid].modelTrained

\* C6: no classroom has datasetReady = true or modelTrained = true while
\* groupPhotoUploaded = false.
C6_LabelledOnlyAfterUpload ==
    \A c \in DOMAIN db :
        (db[c].datasetReady \/ db[c].modelTrained) => db[c].groupPhotoUploaded

\* C7: when the call to the recognition service fails (an error status, or no
\* response), the request is one of upload, assign, train, take, it answers
\* the upstream status (500 without one) and the collection is unchanged.
C7_UpstreamFailureChangesNothing ==
    [][last'.upstream.kind \in {"http", "timeout"} =>
          /\ last'.op \in {"upload", "assign", "train", "take"}
          /\ last'.calls = 1
          /\ db' = db
          /\ last'.status = IF last'.upstream.kind = "http"
                            THEN last'.upstream.status
                            ELSE 500]_vars

\* assign-students has just failed upstream with 503 on a classroom whose
\* faces wait for labels
C7_AssignFailedUpstream ==
    /\ last.op = "assign"
    /\ last.upstream.kind = "http"
    /\ last.status = 503
    /\ last.cid \in DOMAIN db
    /\ db[last.cid].tempFaceData # <<>>
    /\ ~db[last.cid].datasetReady

\* the roll numbers among the recognized faces: neither 'Unknown' nor missing
RollsSeen(faces) ==
    {faces[i].roll_number : i \in 1..Len(faces)} \ {Unknown, NoRoll}

\* the position of the first face with roll number r
FirstSeen(faces, r) ==
    CHOOSE i \in 1..Len(faces) :
        /\ faces[i].roll_number = r
        /\ \A j \in 1..(i - 1) : faces[j].roll_number # r

\* the session pushed last to the classroom the last request named
LastSession == db[last.cid].attendanceSessions[Len(db[last.cid].attendanceSessions)]

\* the recognizer answered the last take request and the store was up
TakeAnswered ==
    /\ last.op = "take"
    /\ last.upstream.kind = "ok"
    /\ last.storage # "failed"

\* C8: for any list of recognized faces and any roster, take records a
\* session with exactly one present entry per distinct non-Unknown roll
\* number, in the order of first occurrence, presentCount the number of those
\* roll numbers, absentCount the number of roster students whose roll number
\* is not among them, and totalStudents the roster size.
C8_SessionCounts ==
    TakeAnswered =>
        /\ last.status = 200
        /\ LET present == SelectSeq(LastSession.attendanceResults,
                                    LAMBDA r : r.status = "present")
               seen == RollsSeen(last.data)
               students == db[last.cid].students
           IN  /\ Len(present) = Cardinality(seen)
               /\ {present[i].rollNumber : i \in 1..Len(present)} = seen
               /\ \A i, j \in 1..Len(present) :
                     i < j => FirstSeen(last.data, present[i].rollNumber)
                                < FirstSeen(last.data, present[j].rollNumber)
               /\ LastSession.presentCount = Cardinality(seen)
               /\ LastSession.absentCount
                    = Cardinality({i \in 1..Len(students) :
                                      students[i].rollNumber \notin seen})
               /\ LastSession.totalStudents = Len(students)

\* C9: for a recognition result with k faces tagged 'Unknown', take succeeds
\* and the session persisted holds exactly k entries with status 'unknown'.
C9_UnknownsKept ==
    TakeAnswered =>
        /\ last.status = 200
        /\ Cardinality({i \in 1..Len(LastSession.attendanceResults) :
                           LastSession.attendanceResults[i].status = "unknown"})
             = Cardinality({i \in 1..Len(last.data) :
                               last.data[i].roll_number = Unknown})

\* C10: the session list of a classroom only grows, by one session appended
\* by a take request; every session recorded stays in place, unchanged.
C10_LedgerAppendOnly ==
    [][\A c \in DOMAIN db :
          /\ c \in DOMAIN db'
          /\ LET old == db[c].attendanceSessions
                 new == db'[c].attendanceSessions
             IN  /\ Len(new) \in {Len(old), Len(old) + 1}
                 /\ SubSeq(new, 1, Len(old)) = old
                 /\ Len(new) > Len(old) => last'.op = "take"]_vars

\* two sessions taken on rosters of different sizes are still in the ledger
\* after a later upload
C10_TwoSessionsKept ==
    /\ last.op = "upload"
    /\ last.status = 200
    /\ Len(db[last.cid].attendanceSessions) = 2
    /\ db[last.cid].attendanceSessions[1].totalStudents = 1
    /\ db[last.cid].attendanceSessions[2].totalStudents = 2

\* the operations addressed by the public id of a classroom
ByIdOps ==
    {"get", "upload", "assign", "train", "take", "delete", "history", "analytics"}

\* the plain 404 of a request that named no classroom of the caller: no call
\* to the recognition service, no data
NotFoundAnswer(r) ==
    /\ r.status = 404
    /\ r.message = "Classroom not found"
    /\ r.calls = 0
    /\ r.data = <<>>
    /\ r.storage = "none"

\* C11: a registered caller's request, by public id, for a classroom of
\* another teacher gets the same answer as for an id no classroom has or for
\* a soft-deleted one (404 'Classroom not found', no data), makes no call to
\* the recognition service and changes nothing; and list returns only
\* classrooms of the caller.
C11_OthersClassroomsNotFound ==
    [][/\ (last'.op \in ByIdOps
             /\ (last'.cid \notin DOMAIN db
                   \/ db[last'.cid].teacher # last'.caller
                   \/ ~db[last'.cid].isActive)) =>
            (NotFoundAnswer(last') /\ db' = db)
       /\ last'.op = "list" =>
            \A i \in 1..Len(last'.data) : last'.data[i].teacher = last'.caller]_vars

\* u2 has just asked to take attendance in the trained, active classroom c1
\* of u1 and got 404
C11_OtherTeacherRefused ==
    /\ last.op = "take"
    /\ last.caller = "u2"
    /\ last.cid = "c1"
    /\ last.status = 404
    /\ "c1" \in DOMAIN db
    /\ db["c1"].teacher = "u1"
    /\ db["c1"].isActive
    /\ db["c1"].modelTrained

\* C12: delete of an active classroom of the caller succeeds and changes
\* only isActive; from then on delete again, get and every workflow and
\* attendance operation on it answer 404 and change nothing, and list leaves
\* it out.
C12_SoftDelete ==
    [][/\ (last'.op = "delete" /\ last'.cid \in DOMAIN db
             /\ db[last'.cid].teacher = last'.caller
             /\ db[last'.cid].isActive) =>
            /\ last'.status = 200
            /\ db' = [db EXCEPT ![last'.cid].isActive = FALSE]
       /\ (last'.op \in ByIdOps /\ last'.cid \in DOMAIN db
             /\ ~db[last'.cid].isActive) =>
            (NotFoundAnswer(last') /\ db' = db)
       /\ last'.op = "list" =>
            \A i \in 1..Len(last'.data) : last'.data[i].isActive]_vars

\* the owner has just tried to delete a classroom a second time and got 404
C12_SecondDeleteNotFound ==
    /\ last.op = "delete"
    /\ last.status = 404
    /\ last.cid \in DOMAIN db
    /\ db[last.cid].teacher = last.caller
    /\ ~db[last.cid].isActive
    /\ Len(db[last.cid].attendanceSessions) > 0

\* C13: history with 1-based page p and page size L over n sessions returns
\* the sessions at positions (p-1)*L+1 .. min(p*L, n) of the newest-first
\* order (sessions of one instant in ledger order), with totalSessions = n,
\* totalPages = ceil(n/L), hasNextPage = (p < totalPages) and
\* hasPrevPage = (p > 1).
C13_HistoryPages ==
    (last.op = "history" /\ last.status = 200) =>
        LET ledger == db[last.cid].attendanceSessions
            n == Len(ledger)
            p == last.query.page
            L == last.query.limit
            Position(j) ==
                1 + Cardinality({i \in 1..n :
                        \/ ledger[i].createdAt > ledger[j].createdAt
                        \/ ledger[i].createdAt = ledger[j].createdAt /\ i < j})
            first == (p - 1) * L + 1
            final == IF p * L < n THEN p * L ELSE n
            pages == IF n % L = 0 THEN n \div L ELSE n \div L + 1
            shown == last.body.sessions
            pagination == last.body.pagination
        IN  /\ Len(shown) = IF final >= first THEN final - first + 1 ELSE 0
            /\ \A i \in 1..Len(shown) :
                  \E j \in 1..n : Position(j) = first + i - 1 /\ shown[i] = ledger[j]
            /\ pagination.currentPage = p
            /\ pagination.totalSessions = n
            /\ pagination.totalPages = pages
            /\ pagination.hasNextPage = (p < pages)
            /\ pagination.hasPrevPage = (p > 1)

\* page 2 of four sessions by three has just been served: the one oldest
\* session, from a ledger that is not in order of creation
C13_SecondPage ==
    /\ last.op = "history"
    /\ last.query = [page |-> 2, limit |-> 3]
    /\ Len(db[last.cid].attendanceSessions) = 4
    /\ db[last.cid].attendanceSessions[1].createdAt
         > db[last.cid].attendanceSessions[2].createdAt
    /\ Len(last.body.sessions) = 1
    /\ last.body.sessions[1] = db[last.cid].attendanceSessions[2]
    /\ last.body.pagination.totalPages = 2
    /\ ~last.body.pagination.hasNextPage

\* C14: analytics on a classroom with no session answers totalSessions = 0,
\* averageAttendance = 0, an empty attendanceTrend and an empty
\* studentAttendance whatever the roster, and no number of any analytics
\* answer is the result of a division by zero (an empty roster with sessions
\* included).
C14_AnalyticsNeverDividesByZero ==
    (last.op = "analytics" /\ last.status = 200) =>
        LET doc == db[last.cid]
            b == last.body
        IN  /\ Len(doc.attendanceSessions) = 0 =>
                  /\ b.totalSessions = 0
                  /\ b.averageAttendance.num = 0
                  /\ b.attendanceTrend = <<>>
                  /\ b.studentAttendance = <<>>
            /\ b.averageAttendance.den # 0
            /\ \A i \in 1..Len(b.attendanceTrend) :
                  b.attendanceTrend[i].percentage.den # 0
            /\ \A i \in 1..Len(b.studentAttendance) :
                  b.studentAttendance[i].percentage.den # 0

\* analytics has just answered for a classroom with an empty roster and two
\* sessions in which students were present
C14_EmptyRosterWithSessions ==
    /\ last.op = "analytics"
    /\ last.status = 200
    /\ db[last.cid].students = <<>>
    /\ Len(db[last.cid].attendanceSessions) = 2
    /\ db[last.cid].attendanceSessions[1].presentCount > 0
    /\ last.body.totalSessions = 2
    /\ last.body.averageAttendance.num = 0

\* C15: for a classroom with at least one session and a non-empty roster,
\* averageAttendance = (sum over the sessions of presentCount) /
\* (number of sessions * size of the roster now) * 100, not each session's
\* own totalStudents.
C15_AverageOverCurrentRoster ==
    (last.op = "analytics" /\ last.status = 200
        /\ Len(db[last.cid].attendanceSessions) >= 1
        /\ Len(db[last.cid].students) >= 1) =>
        LET sessions == db[last.cid].attendanceSessions
            n == Len(sessions)
            present[i \in 0..n] ==
                IF i = 0 THEN 0 ELSE present[i - 1] + sessions[i].presentCount
            average == last.body.averageAttendance
        IN  /\ average.den # 0
            /\ average.num * (n * Len(db[last.cid].students))
                 = 100 * present[n] * average.den

\* analytics has just answered for two students and two sessions, the first
\* recorded when the roster had one student
C15_RosterGrew ==
    /\ last.op = "analytics"
    /\ last.status = 200
    /\ Len(db[last.cid].students) = 2
    /\ Len(db[last.cid].attendanceSessions) = 2
    /\ db[last.cid].attendanceSessions[1].totalStudents = 1
    /\ db[last.cid].attendanceSessions[1].presentCount = 1
    /\ db[last.cid].attendanceSessions[2].presentCount = 2

\* C16: create without a name answers 400 and create by a caller with no
\* User document answers 404, no classroom being created in either case; a
\* successful create stores an active classroom with no students, no
\* sessions and every workflow flag false.
C16_CreateValidation ==
    last.op = "create" =>
        /\ ~UserFound(last.caller) => (last.status = 404 /\ last.storage = "none")
        /\ (UserFound(last.caller) /\ last.input = "") =>
              (last.status = 400 /\ last.storage # "ok")
        /\ last.status = 201 =>
              /\ last.cid \in DOMAIN db
              /\ db[last.cid].isActive
              /\ db[last.cid].students = <<>>
              /\ db[last.cid].attendanceSessions = <<>>
              /\ ~db[last.cid].groupPhotoUploaded
              /\ ~db[last.cid].datasetReady
              /\ ~db[last.cid].modelTrained

\* C17: a create whose generated classroomId is that of an existing
\* classroom does not fail: whenever the store is up, a valid create by a
\* registered caller answers 201.
C17_CollisionRetried ==
    (last.op = "create" /\ UserFound(last.caller) /\ last.input # ""
        /\ last.storage # "failed") => last.status = 201

\* C18: assign-students succeeds only on a list of at least one assignment.
C18_AssignNeedsOne ==
    (last.op = "assign" /\ last.status = 200) => Len(last.assignments) > 0

\* C19: while modelTrained stays true the students roster does not change.
C19_RosterFrozenWhileTrained ==
    [][\A c \in DOMAIN db :
          (db[c].modelTrained /\ db'[c].modelTrained) =>
              db'[c].students = db[c].students]_vars

\* C20: the roll numbers of a roster are pairwise distinct.
C20_RollNumbersDistinct ==
    \A c \in DOMAIN db :
        \A i, j \in 1..Len(db[c].students) :
            i # j => db[c].students[i].rollNumber # db[c].students[j].rollNumber

\* C22: a successful assign-students makes students exactly one entry per
\* submitted assignment, in submission order, with its roll number and face
\* id (name defaulting to 'Student <roll>'), sets datasetReady, empties
\* tempFaceData and changes nothing else of the classroom.
C22_AssignReplacesRoster ==
    [][(last'.op = "assign" /\ last'.status = 200) =>
          LET c == last'.cid
              a == last'.assignments
              roster == [i \in 1..Len(a) |->
                  [rollNumber |-> a[i].roll_number,
                   name |-> IF a[i].studentName = ""
                            THEN "Student " \o a[i].roll_number
                            ELSE a[i].studentName,
                   faceId |-> a[i].face_id,
                   isActive |-> TRUE]]
          IN  db' = [db EXCEPT ![c].students = roster,
                               ![c].datasetReady = TRUE,
                               ![c].tempFaceData = <<>>]]_vars

\* one student has just been assigned to a trained classroom whose session
\* was taken on a roster of two
C22_RosterSuperseded ==
    /\ last.op = "assign"
    /\ last.status = 200
    /\ Len(last.assignments) = 1
    /\ Len(db[last.cid].students) = 1
    /\ db[last.cid].modelTrained
    /\ Len(db[last.cid].attendanceSessions) = 1
    /\ db[last.cid].attendanceSessions[1].totalStudents = 2

C25_StorageErrorReported ==
    (last.op = "take" /\ last.upstream.kind = "ok" /\ last.storage = "failed") =>
        /\ last.status = 500
        /\ last.message
             # "Failed to process attendance with face recognition service"

\* C26: for a classroom with at least one session, analytics returns one
\* studentAttendance entry per student of the roster, in roster order, whose
\* presentCount is the number of sessions with a 'present' result for the
\* student's roll number and whose percentage is presentCount / number of
\* sessions * 100.
C26_StudentAttendance ==
    (last.op = "analytics" /\ last.status = 200
        /\ Len(db[last.cid].attendanceSessions) >= 1) =>
        LET doc == db[last.cid]
            n == Len(doc.attendanceSessions)
            entries == last.body.studentAttendance
            Attended(roll) ==
                {j \in 1..n :
                    [rollNumber |-> roll, status |-> "present"] \in
                        {doc.attendanceSessions[j].attendanceResults[k] :
                            k \in 1..Len(doc.attendanceSessions[j].attendanceResults)}}
        IN  /\ Len(entries) = Len(doc.students)
            /\ \A i \in 1..Len(entries) :
                  /\ entries[i].rollNumber = doc.students[i].rollNumber
                  /\ entries[i].name = doc.students[i].name
                  /\ entries[i].presentCount
                       = Cardinality(Attended(doc.students[i].rollNumber))
                  /\ entries[i].totalSessions = n
                  /\ entries[i].percentage.den # 0
                  /\ entries[i].percentage.num * n
                       = 100 * entries[i].presentCount * entries[i].percentage.den

\* analytics has just answered for students A and C and two sessions: A was
\* present in one, C in both
C26_OneOfTwo ==
    /\ last.op = "analytics"
    /\ last.status = 200
    /\ Len(db[last.cid].attendanceSessions) = 2
    /\ Len(last.body.studentAttendance) = 2
    /\ last.body.studentAttendance[1].rollNumber = "A"
    /\ last.body.studentAttendance[1].presentCount = 1
    /\ last.body.studentAttendance[2].rollNumber = "C"
    /\ last.body.studentAttendance[2].presentCount = 2

\* C28: every recorded session has presentCount + absentCount =
\* totalStudents and presentCount <= totalStudents.
C28_CountsAddUp ==
    \A c \in DOMAIN db :
        \A i \in 1..Len(db[c].attendanceSessions) :
            LET session == db[c].attendanceSessions[i]
            IN  /\ session.presentCount + session.absentCount = session.totalStudents
                /\ session.presentCount <= session.totalStudents

\* C30: every percentage analytics returns (averageAttendance, each entry of
\* attendanceTrend, each entry of studentAttendance) is between 0 and 100.
C30_PercentagesWithin100 ==
    (last.op = "analytics" /\ last.status = 200) =>
        LET Within(q) == q.den > 0 /\ q.num <= 100 * q.den
            b == last.body
        IN  /\ Within(b.averageAttendance)
            /\ \A i \in 1..Len(b.attendanceTrend) :
                  Within(b.attendanceTrend[i].percentage)
            /\ \A i \in 1..Len(b.studentAttendance) :
                  Within(b.studentAttendance[i].percentage)

\* the classroom and attendance operations
ClassroomOps ==
    {"create", "list", "get", "upload", "assign", "train", "take", "delete",
     "history", "analytics"}

\* C21: whatever sync requests run, one after another or interleaved, no two
\* User documents have the same clerkId; a sync that succeeds leaves exactly
\* one document for its subject id, carrying the data sent, inserted when the
\* id had none and updated in place otherwise; and a classroom or attendance
\* request of a subject id with no User document fails, makes no call and
\* changes no classroom, with 404 'User not found' unless the request carried
\* no file.
C21_OneUserPerSubject ==
    /\ [](\A i, j \in 1..Len(users) : i # j => users[i].clerkId # users[j].clerkId)
    /\ [][(last'.op = "sync" /\ last'.status = 200 /\ users' # users) =>
            LET id == last'.caller
                before == {i \in 1..Len(users) : users[i].clerkId = id}
                after == {i \in 1..Len(users') : users'[i].clerkId = id}
            IN  /\ Cardinality(after) = 1
                /\ \A i \in after : /\ users'[i].email = last'.data[1].email
                                    /\ users'[i].firstName = last'.data[1].firstName
                /\ Len(users') = IF before = {} THEN Len(users) + 1 ELSE Len(users)
                /\ \A i \in 1..Len(users) : i \notin before => users'[i] = users[i]]_vars
    /\ [][(last'.op \in ClassroomOps
             /\ \A i \in 1..Len(users) : users[i].clerkId # last'.caller) =>
            /\ db' = db
            /\ last'.calls = 0
            /\ last'.status >= 400
            /\ last'.input # "none" \/ last'.op \notin {"upload", "take"} =>
                  (last'.status = 404 /\ last'.message = "User not found")]_vars

\* of two interleaved first syncs of u2, with different emails, the second
\* has just been refused by the unique index on clerkId: u2 has one document
C21_SecondInsertRefused ==
    /\ last.op = "sync"
    /\ last.caller = "u2"
    /\ last.status = 500
    /\ last.storage = "duplicate"
    /\ last.data[1].email = "cy@school"
    /\ Len(users) = 2
    /\ users[2] = UserDoc("u2", "bea@school", "Ann")


\* C24: when two assign-students requests for the same classroom overlap,
\* both complete successfully and the stored roster is exactly the list of
\* the request that persisted last; no conflict error is raised.
\* (Violated: the second save sets the students array against a __v that
\* the first save has incremented, so it is refused and answers 500.)
C24_BothAssignsSucceed ==
    LET a == inflight["r1"]
        b == inflight["r2"]
    IN  ( /\ a.stage = "done" /\ b.stage = "done"
          /\ a.op = "assign" /\ b.op = "assign"
          /\ a.overlapped /\ b.overlapped
          /\ a.upstream = "ok" /\ b.upstream = "ok"
          /\ a.storage # "failed" /\ b.storage # "failed"
          /\ last.op = "assign" )
        => /\ a.status = 200 /\ b.status = 200
           /\ db[last.cid].students = Students(last.assignments)

\* C27: however a train-model request and an upload-group-photo request
\* interleave, no stored classroom has modelTrained true while datasetReady
\* is false or tempFaceData is non-empty.
\* (Violated: a train request that loaded the classroom before the upload
\* persisted writes only modelTrained, on top of the upload's reset.)
C27_TrainedImpliesReady ==
    \A c \in DOMAIN db :
        db[c].modelTrained => db[c].datasetReady /\ db[c].tempFaceData = <<>>

\* C29: once a classroom is soft-deleted no operation, including one that
\* was in flight when it was deleted, changes its stored document.
\* (Violated: a request that loaded the classroom before the delete saves by
\* _id alone afterwards.)
C29_DeletedUnchanged ==
    [][\A c \in DOMAIN db : ~db[c].isActive => db'[c] = db[c]]_vars

====
